---- MODULE Spec2Model ----
(***************************************************************************)
(* Alpinescraper: the harvest orchestrator (scraper.py), the spiders       *)
(* (spiders.py), the normalization pipeline and the bounded MongoDB writer *)
(* (pipeline.py), as state machines.                                       *)
(*                                                                         *)
(* Three specifications share the module's variables; each leaves the      *)
(* variables of the other parts at their initial value:                    *)
(*   SpecHarvest  create_army, deploy_army, Spider.deploy                  *)
(*   SpecPipe     ItemPipeline.clean_raw_data and the four serializers     *)
(*   SpecStore    ItemPipeline.write_mongodb, size check, eviction, insert *)
(***************************************************************************)
EXTENDS Integers, Sequences, FiniteSets, Bags, TLC

VARIABLES
    \* ---- harvest (scraper.py, spiders.py)
    spider_class,   \* the orchestrator's spider_class property
    urls,           \* ScrapingOrchestrator._urls
    nb_spider,      \* ScrapingOrchestrator.nb_spider
    page,           \* what the site answers for the URL at each position of _urls
    army,           \* ScrapingOrchestrator._army
    opc,            \* position of the thread that runs deploy_army
    wpc,            \* per spider: state of its future (executor.submit(spider.deploy))
    widx,           \* per spider: number of URLs of self.urls already visited
    witems,         \* per spider: the local list `items` of Spider.deploy
    yielded,        \* futures that as_completed has already handed to the loop
    retour,         \* the local list `retour` of deploy_army
    \* ---- normalization and file sink (pipeline.py)
    raw_item,       \* ItemPipeline.raw_item
    clean_data,     \* the local list `clean_data` of clean_raw_data
    clean_item,     \* ItemPipeline.clean_item
    ppc,            \* position of the thread that owns the pipeline
    pass,           \* 1: raw_item was scraped; 2: raw_item is an earlier clean_item
    first_clean,    \* clean_item of pass 1, kept for comparison
    json_file,      \* the file json_filename
    log,            \* the warnings of the serializers: <<item number, field>>
    json_call,      \* write_json's argument `append` and the file it found
    \* ---- MongoDB sink (pipeline.py)
    store,          \* the database: per collection, the bag of its documents
    store0,         \* the database when write_mongodb was called
    batch,          \* [asdict(item) for item in self.clean_item], as documents
    append_arg,     \* the argument `append` of write_mongodb
    spc,            \* position of the thread that runs write_mongodb
    clean_calls,    \* number of calls of clean_mongodb made by this write_mongodb
    insert_result,  \* "none", "ok" or "error": how insert_many ended
    \* ---- discovery (scraper.py, fetch_urls) and the run (main.py)
    site,           \* what the web site answers for each listing page
    dpc,            \* position of fetch_urls
    page_number,    \* fetch_urls' page_number (every page past the last
                    \* described one is the same page)
    response,       \* fetch_urls' local `response`
    soup,           \* fetch_urls' local `soup`
    fetch_failed,   \* number of the first page whose fetch failed, 0 if none
    env,            \* the environment variables that are set
    network_used,   \* an HTTP request has been sent
    \* ---- two processes that run write_mongodb on one database (pipeline.py)
    writer,         \* per process: position in write_mongodb, batch, `append`
    raced           \* a process inserted while another one was past its size
                    \* check and before its insert

hvars == <<spider_class, urls, nb_spider, page, army, opc, wpc, widx, witems,
           yielded, retour>>

pvars == <<raw_item, clean_data, clean_item, ppc, pass, first_clean, json_file,
           log, json_call>>

svars == <<store, store0, batch, append_arg, spc, clean_calls, insert_result>>

dvars == <<site, dpc, page_number, response, soup, fetch_failed>>

nvars == <<env, network_used>>

cvars == <<writer, raced>>

vars == <<hvars, pvars, svars, dvars, nvars, cvars>>

(***************************************************************************)
(* Bounds of the model.                                                    *)
(***************************************************************************)
MaxUrls == 4
MaxSpiders == 3
MaxLen == 3
MaxItems == 2
MaxDate == 2
MaxDocs == 2
MaxBatch == 2

\* URLs are numbered; NbUrlIds distinct URLs exist.
NbUrlIds == 3
UrlIds == 1..NbUrlIds

\* The answers a listing URL can get: a page with every expected element, a
\* failed fetch (requests.RequestException), a page that lacks an element
\* parse() dereferences.
PageKinds == {"ok", "fetch_error", "missing_element"}

SpiderClasses == {"AcmImmobilierSpider", "AgenceOlivierSpider"}

Min2(a, b) == IF a < b THEN a ELSE b

RECURSIVE SeqSum(_)
SeqSum(s) == IF s = <<>> THEN 0 ELSE Head(s) + SeqSum(Tail(s))

(***************************************************************************)
(* np.array_split(ary, Nsections): Neach_section, extras =                 *)
(* divmod(Ntotal, Nsections); the first `extras` sections hold             *)
(* Neach_section + 1 elements, the others Neach_section; div_points is the *)
(* running sum of the section sizes and section i is                       *)
(* ary[div_points[i] : div_points[i + 1]].                                 *)
(***************************************************************************)
SectionSizeTruncating(L, n, i) == L \div n

SectionSize(L, n, i) == IF i <= L % n THEN (L \div n) + 1 ELSE L \div n

DivPoint(L, n, i) == SeqSum([j \in 1..i |-> SectionSize(L, n, j)])

\* The positions of ary that section i (1-based) holds.
SectionPositions(L, n, i) == (DivPoint(L, n, i - 1) + 1)..DivPoint(L, n, i)

\* A split that deals the elements out in turn: section i holds the elements
\* at positions i, i + n, i + 2n, ...
array_split_round_robin(ary, n, i) ==
    [k \in 1..Cardinality({p \in 1..Len(ary) : p % n = i % n}) |->
        ary[i + (k - 1) * n]]

array_split(ary, n, i) ==
    SubSeq(ary, DivPoint(Len(ary), n, i - 1) + 1, DivPoint(Len(ary), n, i))

\* create_army: spider i + 1 gets list(np.array_split(self._urls, nb_spider)[i]).
\* `pos` records which positions of _urls the spider's urls came from.
CreateArmy(u, n) ==
    [i \in 1..n |-> [name |-> i,
                     urls |-> array_split(u, n, i),
                     pos  |-> SectionPositions(Len(u), n, i)]]

(***************************************************************************)
(* Spider.parse for the URL at position p of _urls.  "item": an Item is    *)
(* returned; "none": None is returned; "raise": an exception leaves parse. *)
(*   - fetch error: AcmImmobilierSpider logs it and goes on to read        *)
(*     `response`, which raises; the other spiders return None.            *)
(*   - missing element: soup.find(...) is None and .get_text() raises      *)
(*     AttributeError in every spider.                                     *)
(***************************************************************************)
parse(cls, kind) ==
    CASE kind = "ok" -> "item"
      [] kind = "fetch_error" ->
            IF cls = "AcmImmobilierSpider" THEN "raise" ELSE "none"
      [] kind = "missing_element" -> "raise"

\* The Item parse builds: SPIDER=self.name, URL=url (the scraped fields are
\* left to the pipeline part); `pos` identifies the visit that produced it.
MakeItem(w, p) == [SPIDER |-> army[w].name, URL |-> urls[p], pos |-> p]

\* Position in _urls of the k-th URL of spider w.
PosOf(w, k) == DivPoint(Len(urls), nb_spider, w - 1) + k

Workers == 1..nb_spider

MaxPages == 2
MaxFound == 4

\* The variables a document-store client needs (create_client).
EnvVars == {"MONGODB_PWD", "MONGODB_USER", "MONGODB_DATABASE"}

\* The answers to requests.get: a page with its offers and its has-more
\* indicator; no answer (connection error, timeout); an answer with an error
\* status, whose content is an error page.  raise_for_status raises for the
\* last one, after `response` was assigned.
OkPage(offers, more) == [status |-> "ok", offers |-> offers, more |-> more]
ConnError == [status |-> "conn_error", offers |-> <<>>, more |-> FALSE]
HttpError == [status |-> "http_error", offers |-> <<>>, more |-> FALSE]

\* A local variable that was never assigned.
Unbound == [status |-> "unbound", offers |-> <<>>, more |-> FALSE]

\* fetch_urls is over and the environment is complete.
DiscoverIdle ==
    /\ site = [pages |-> <<>>, tail |-> ConnError]
    /\ dpc = "none"
    /\ page_number = 1
    /\ response = Unbound
    /\ soup = Unbound
    /\ fetch_failed = 0
    /\ env = EnvVars
    /\ network_used = FALSE

\* No second process writes to the database.
WritersIdle ==
    /\ writer = <<>>
    /\ raced = FALSE

\* write_mongodb is not running.
StoreIdle ==
    /\ store = [c \in {"c1", "c2"} |-> EmptyBag]
    /\ store0 = store
    /\ batch = <<>>
    /\ append_arg = FALSE
    /\ spc = "none"
    /\ clean_calls = 0
    /\ insert_result = "none"
    /\ DiscoverIdle
    /\ WritersIdle

\* No pipeline exists yet and write_mongodb is not running.
PipeIdle ==
    /\ StoreIdle
    /\ raw_item = <<>>
    /\ clean_data = <<>>
    /\ clean_item = <<>>
    /\ ppc = "none"
    /\ pass = 1
    /\ first_clean = <<>>
    /\ json_file = [kind |-> "missing"]
    /\ log = {}
    /\ json_call = <<>>

\* What the harvest variables hold when __init__ has run fetch_urls and is
\* about to run create_army.
HarvestStart ==
    /\ spider_class \in SpiderClasses
    /\ nb_spider \in 1..MaxSpiders
    /\ army = <<>>
    /\ opc = "init"
    /\ wpc = [w \in 1..nb_spider |-> "new"]
    /\ widx = [w \in 1..nb_spider |-> 0]
    /\ witems = [w \in 1..nb_spider |-> <<>>]
    /\ yielded = {}
    /\ retour = <<>>
    /\ PipeIdle

\* Discovery returned any sequence of URLs, repeats included (fetch_urls
\* appends every href it meets).
ArmyInit ==
    /\ \E L \in 0..MaxUrls : urls \in [1..L -> UrlIds]
    /\ page = [p \in 1..Len(urls) |-> "ok"]
    /\ HarvestStart

\* Discovery returned L distinct URLs.
HarvestInit ==
    /\ \E L \in 0..MaxUrls : urls = [i \in 1..L |-> i]
    /\ page \in [1..Len(urls) -> PageKinds]
    /\ HarvestStart

\* ScrapingOrchestrator.__init__: self._army = self.create_army()
create_army ==
    /\ opc = "init"
    /\ army' = CreateArmy(urls, nb_spider)
    /\ opc' = "constructed"
    /\ UNCHANGED <<spider_class, urls, nb_spider, page, wpc, widx, witems,
                   yielded, retour>>
    /\ UNCHANGED <<pvars, svars, dvars, nvars, cvars>>

\* deploy_army: retour = []; every spider.deploy is submitted to the pool,
\* which has one thread per spider.
deploy_army_submit ==
    /\ opc = "constructed"
    /\ wpc' = [w \in Workers |-> "running"]
    /\ opc' = "as_completed"
    /\ UNCHANGED <<spider_class, urls, nb_spider, page, army, widx, witems,
                   yielded, retour>>
    /\ UNCHANGED <<pvars, svars, dvars, nvars, cvars>>

deploy_step_prepend(w) ==
    /\ wpc[w] = "running"
    /\ widx[w] < Len(army[w].urls)
    /\ LET p == PosOf(w, widx[w] + 1)
           r == parse(spider_class, page[p])
       IN  CASE r = "item" ->
                  /\ witems' = [witems EXCEPT ![w] = <<MakeItem(w, p)>> \o @]
                  /\ widx' = [widx EXCEPT ![w] = @ + 1]
                  /\ wpc' = wpc
             [] r = "none" ->
                  /\ widx' = [widx EXCEPT ![w] = @ + 1]
                  /\ UNCHANGED <<witems, wpc>>
             [] r = "raise" ->
                  /\ wpc' = [wpc EXCEPT ![w] = "exception"]
                  /\ UNCHANGED <<witems, widx>>
    /\ UNCHANGED <<spider_class, urls, nb_spider, page, army, opc, yielded, retour>>
    /\ network_used' = TRUE
    /\ UNCHANGED <<pvars, svars, dvars, env, cvars>>

\* Spider.deploy, one turn of `for url in self.urls`: item = self.parse(url),
\* which requests the page of the URL;
\* if item: items.append(item).  An exception of parse is not caught: it ends
\* deploy and is stored in the future.
deploy_step(w) ==
    /\ wpc[w] = "running"
    /\ widx[w] < Len(army[w].urls)
    /\ LET p == PosOf(w, widx[w] + 1)
           r == parse(spider_class, page[p])
       IN  CASE r = "item" ->
                  /\ witems' = [witems EXCEPT ![w] = Append(@, MakeItem(w, p))]
                  /\ widx' = [widx EXCEPT ![w] = @ + 1]
                  /\ wpc' = wpc
             [] r = "none" ->
                  /\ widx' = [widx EXCEPT ![w] = @ + 1]
                  /\ UNCHANGED <<witems, wpc>>
             [] r = "raise" ->
                  /\ wpc' = [wpc EXCEPT ![w] = "exception"]
                  /\ UNCHANGED <<witems, widx>>
    /\ UNCHANGED <<spider_class, urls, nb_spider, page, army, opc, yielded, retour>>
    /\ network_used' = TRUE
    /\ UNCHANGED <<pvars, svars, dvars, env, cvars>>

\* Spider.deploy: the loop is over, `return items`.
deploy_return(w) ==
    /\ wpc[w] = "running"
    /\ widx[w] = Len(army[w].urls)
    /\ wpc' = [wpc EXCEPT ![w] = "result"]
    /\ UNCHANGED <<spider_class, urls, nb_spider, page, army, opc, widx, witems,
                   yielded, retour>>
    /\ UNCHANGED <<pvars, svars, dvars, nvars, cvars>>

Finished(w) == wpc[w] \in {"result", "exception"}

deploy_army_collect_overwrite(w) ==
    /\ opc = "as_completed"
    /\ w \notin yielded
    /\ wpc[w] = "result"
    /\ retour' = witems[w]
    /\ yielded' = yielded \cup {w}
    /\ UNCHANGED <<spider_class, urls, nb_spider, page, army, opc, wpc, widx, witems>>
    /\ UNCHANGED <<pvars, svars, dvars, nvars, cvars>>

\* deploy_army, one turn of `for future in as_completed(futures)` for a future
\* that holds a result: result = future.result(); retour.extend(result).
deploy_army_collect(w) ==
    /\ opc = "as_completed"
    /\ w \notin yielded
    /\ wpc[w] = "result"
    /\ retour' = retour \o witems[w]
    /\ yielded' = yielded \cup {w}
    /\ UNCHANGED <<spider_class, urls, nb_spider, page, army, opc, wpc, widx, witems>>
    /\ UNCHANGED <<pvars, svars, dvars, nvars, cvars>>

\* The same turn for a future that holds an exception: future.result() raises
\* it again, nothing in deploy_army catches it and it leaves the loop.
deploy_army_reraise(w) ==
    /\ opc = "as_completed"
    /\ w \notin yielded
    /\ wpc[w] = "exception"
    /\ yielded' = yielded \cup {w}
    /\ opc' = "unwinding"
    /\ UNCHANGED <<spider_class, urls, nb_spider, page, army, wpc, widx, witems, retour>>
    /\ UNCHANGED <<pvars, svars, dvars, nvars, cvars>>

\* The exception leaves the `with ThreadPoolExecutor` block: __exit__ runs
\* shutdown(wait=True), which waits for every submitted deploy, and then the
\* exception leaves deploy_army; retour is dropped.
deploy_army_raise ==
    /\ opc = "unwinding"
    /\ \A w \in Workers : Finished(w)
    /\ opc' = "raised"
    /\ UNCHANGED <<spider_class, urls, nb_spider, page, army, wpc, widx, witems,
                   yielded, retour>>
    /\ UNCHANGED <<pvars, svars, dvars, nvars, cvars>>

\* as_completed is exhausted once it has yielded every future; the with block
\* ends and deploy_army returns retour.
deploy_army_return ==
    /\ opc = "as_completed"
    /\ yielded = Workers
    /\ opc' = "returned"
    /\ UNCHANGED <<spider_class, urls, nb_spider, page, army, wpc, widx, witems,
                   yielded, retour>>
    /\ UNCHANGED <<pvars, svars, dvars, nvars, cvars>>

HarvestNext ==
    \/ create_army
    \/ deploy_army_submit
    \/ \E w \in Workers : deploy_step(w)
    \/ \E w \in Workers : deploy_return(w)
    \/ \E w \in Workers : deploy_army_collect(w)
    \/ \E w \in Workers : deploy_army_reraise(w)
    \/ deploy_army_raise
    \/ deploy_army_return

SpecHarvest == HarvestInit /\ [][HarvestNext]_vars

ArmyNext == create_army

SpecArmy == ArmyInit /\ [][ArmyNext]_vars

(***************************************************************************)
(* Values of Item fields (items.py).  A scraped value is None or a str; a  *)
(* normalized value is None, a str, an int, a float or a bool.  A str is   *)
(* the sequence of its characters.  A float is the decimal m / 10^e with m *)
(* not a multiple of 10 unless e = 0, so equal numbers are equal values.   *)
(* Raise(exc) stands for an exception that leaves the function.            *)
(***************************************************************************)
None == [t |-> "none"]
StrV(s) == [t |-> "str", v |-> s]
IntV(n) == [t |-> "int", v |-> n]
FloatV(m, e) == [t |-> "float", m |-> m, e |-> e]
BoolV(b) == [t |-> "bool", v |-> b]
Raise(exc) == [t |-> "raise", exc |-> exc]

IsNone(x) == x.t = "none"
IsRaise(x) == x.t = "raise"

\* items.py: the dataclass fields in declaration order, and their types.
FieldOrder ==
    <<"DATE", "PRICE", "REFERENCE", "SPIDER", "TITLE", "URL",
      "AGENCY", "COOWNERSHIP", "BALCONY_COUNT", "BATHROOMS", "BEDROOMS",
      "CURRENCY", "DESCRIPTION", "ELEVATOR", "ENERGY_PERFORMANCE",
      "EXTERNAL_SIZE", "EXTERIOR_AMENITIES", "FLOOR", "GARAGE", "GARDEN",
      "GREENHOUSE_EMISSION", "HEATING", "INTERIOR_AMENITIES", "LOCATION",
      "NB_FLOOR", "PARKING", "ROOMS", "SIZE", "STATUS", "TERRACE", "TYPE",
      "VIEW", "YEAR_OF_CONSTRUCTION">>

Fields == {FieldOrder[i] : i \in DOMAIN FieldOrder}

MandatoryFields == {"DATE", "PRICE", "REFERENCE", "SPIDER", "TITLE", "URL"}

FloatFields == {"PRICE", "BATHROOMS", "BEDROOMS", "EXTERNAL_SIZE", "ROOMS", "SIZE"}
IntFields == {"BALCONY_COUNT", "FLOOR", "GARAGE", "NB_FLOOR", "PARKING",
              "YEAR_OF_CONSTRUCTION"}
BoolFields == {"ELEVATOR", "TERRACE"}

FieldType(f) ==
    CASE f \in FloatFields -> "float"
      [] f \in IntFields -> "int"
      [] f \in BoolFields -> "bool"
      [] OTHER -> "str"

(***************************************************************************)
(* Characters.                                                             *)
(***************************************************************************)
DigitChars == <<"0", "1", "2", "3", "4", "5", "6", "7", "8", "9">>
UpperChars == <<"A", "B", "C", "D", "E", "F", "G", "H", "I", "J", "K", "L", "M",
                "N", "O", "P", "Q", "R", "S", "T", "U", "V", "W", "X", "Y", "Z">>
LowerChars == <<"a", "b", "c", "d", "e", "f", "g", "h", "i", "j", "k", "l", "m",
                "n", "o", "p", "q", "r", "s", "t", "u", "v", "w", "x", "y", "z">>

IsDigit(c) == \E i \in DOMAIN DigitChars : DigitChars[i] = c
DigitVal(c) == (CHOOSE i \in DOMAIN DigitChars : DigitChars[i] = c) - 1
IsSign(c) == c \in {"-", "+"}
IsSpace(c) == c \in {" ", "\n", "\t", "\r"}

\* str.lower() on one character.
LowerChar(c) ==
    IF \E i \in DOMAIN UpperChars : UpperChars[i] = c
    THEN LowerChars[CHOOSE i \in DOMAIN UpperChars : UpperChars[i] = c]
    ELSE c

lower(s) == [i \in DOMAIN s |-> LowerChar(s[i])]

RECURSIVE lstrip(_)
lstrip(s) == IF s # <<>> /\ IsSpace(Head(s)) THEN lstrip(Tail(s)) ELSE s

RECURSIVE rstrip(_)
rstrip(s) ==
    IF s # <<>> /\ IsSpace(s[Len(s)]) THEN rstrip(SubSeq(s, 1, Len(s) - 1)) ELSE s

\* str.strip()
strip(s) == rstrip(lstrip(s))

Drop(s, k) == SubSeq(s, k + 1, Len(s))

RECURSIVE DigitRunLen(_)
\* Length of the longest run of digits s starts with.
DigitRunLen(s) ==
    IF s # <<>> /\ IsDigit(Head(s)) THEN 1 + DigitRunLen(Tail(s)) ELSE 0

RECURSIVE DotRunLen(_)
DotRunLen(s) == IF s # <<>> /\ Head(s) = "." THEN 1 + DotRunLen(Tail(s)) ELSE 0

RECURSIVE SpaceRunLen(_)
SpaceRunLen(s) ==
    IF s # <<>> /\ IsSpace(Head(s)) THEN 1 + SpaceRunLen(Tail(s)) ELSE 0

SignLen(s) == IF s # <<>> /\ IsSign(Head(s)) THEN 1 ELSE 0

\* Length of the match of r"[-+]?\d+" at the start of s, 0 when there is none.
IntMatchLen(s) ==
    LET d == DigitRunLen(Drop(s, SignLen(s)))
    IN  IF d > 0 THEN SignLen(s) + d ELSE 0

\* Length of the match of r"[-+]?(?:\d*\.*\d+)" at the start of s, 0 when there
\* is none: digits, dots, digits, all greedy; without a digit after the dots
\* the engine backtracks to the first run of digits alone.
FloatMatchLen(s) ==
    LET sg   == SignLen(s)
        d1   == DigitRunLen(Drop(s, sg))
        dots == DotRunLen(Drop(s, sg + d1))
        d2   == DigitRunLen(Drop(s, sg + d1 + dots))
        body == IF d2 > 0 THEN d1 + dots + d2 ELSE d1
    IN  IF body > 0 THEN sg + body ELSE 0

RECURSIVE IntFindallJoin(_)
\* "".join(re.findall(r"[-+]?\d+", s))
IntFindallJoin(s) ==
    IF s = <<>> THEN <<>>
    ELSE LET k == IntMatchLen(s)
         IN  IF k > 0 THEN SubSeq(s, 1, k) \o IntFindallJoin(Drop(s, k))
             ELSE IntFindallJoin(Tail(s))

RECURSIVE FloatFindallJoin(_)
\* "".join(re.findall(r"[-+]?(?:\d*\.*\d+)", s))
FloatFindallJoin(s) ==
    IF s = <<>> THEN <<>>
    ELSE LET k == FloatMatchLen(s)
         IN  IF k > 0 THEN SubSeq(s, 1, k) \o FloatFindallJoin(Drop(s, k))
             ELSE FloatFindallJoin(Tail(s))

RECURSIVE DigitsValue(_)
\* The number a sequence of digits writes.
DigitsValue(s) ==
    IF s = <<>> THEN 0 ELSE 10 * DigitsValue(SubSeq(s, 1, Len(s) - 1)) + DigitVal(s[Len(s)])

\* int(s) accepts an optional sign followed by digits (s holds nothing but
\* signs and digits here); anything else is a ValueError.
IntLiteralOk(s) == s # <<>> /\ IntMatchLen(s) = Len(s)

IntLiteralValue(s) ==
    LET n == DigitsValue(Drop(s, SignLen(s)))
    IN  IF Head(s) = "-" THEN 0 - n ELSE n

NoDots(s) == [i \in DOMAIN s |-> IF s[i] = "." THEN 0 ELSE 1]

\* float(s) accepts an optional sign, then digits with at most one dot among
\* them and at least one digit (s holds nothing but signs, digits and dots
\* here); anything else is a ValueError.
FloatLiteralOk(s) ==
    LET b == Drop(s, SignLen(s))
    IN  /\ \A i \in DOMAIN b : IsDigit(b[i]) \/ b[i] = "."
        /\ Len(b) - SeqSum(NoDots(b)) <= 1
        /\ SeqSum(NoDots(b)) >= 1

RECURSIVE NormFloat(_, _)
NormFloat(m, e) == IF e > 0 /\ m % 10 = 0 THEN NormFloat(m \div 10, e - 1) ELSE FloatV(m, e)

FloatLiteralValue(s) ==
    LET b    == Drop(s, SignLen(s))
        d1   == DigitRunLen(b)
        frac == Drop(b, Min2(Len(b), d1 + 1))
        n    == DigitsValue(SubSeq(b, 1, d1) \o frac)
    IN  NormFloat(IF Head(s) = "-" THEN 0 - n ELSE n, Len(frac))

(***************************************************************************)
(* The serializers of ItemPipeline.  `value` is getattr(raw_item,          *)
(* field_name), never None (apply_serializer returns before the call).     *)
(* str.strip and re.sub exist for a str only: on an int, a float or a bool *)
(* string.strip() raises AttributeError and re.sub raises TypeError, which *)
(* no serializer catches.                                                  *)
(***************************************************************************)
serialize_int_uncaught(value) ==
    IF value.t # "str" THEN Raise("AttributeError")
    ELSE LET tmp_string == IntFindallJoin(strip(value.v))
         IN  IF tmp_string = <<>> THEN None
             ELSE IF IntLiteralOk(tmp_string) THEN IntV(IntLiteralValue(tmp_string))
             ELSE Raise("ValueError")

serialize_int(value) ==
    IF value.t # "str" THEN Raise("AttributeError")
    ELSE LET tmp_string == IntFindallJoin(strip(value.v))
         IN  IF tmp_string = <<>> THEN None
             ELSE IF IntLiteralOk(tmp_string) THEN IntV(IntLiteralValue(tmp_string))
             ELSE None  \* except ValueError: warning, return None

serialize_float(value) ==
    IF value.t # "str" THEN Raise("AttributeError")
    ELSE LET tmp_string == FloatFindallJoin(strip(value.v))
         IN  IF tmp_string = <<>> THEN None
             ELSE IF FloatLiteralOk(tmp_string) THEN FloatLiteralValue(tmp_string)
             ELSE None  \* except ValueError: warning, return None

true_values == {<<"y", "e", "s">>, <<"t", "r", "u", "e">>, <<"1">>, <<"o", "u", "i">>}
false_values == {<<"n", "o">>, <<"f", "a", "l", "s", "e">>, <<"0">>, <<"n", "o", "n">>}

serialize_bool_guessing(value) ==
    IF value.t # "str" THEN Raise("AttributeError")
    ELSE BoolV(lower(strip(value.v)) \in true_values)

serialize_bool(value) ==
    IF value.t # "str" THEN Raise("AttributeError")
    ELSE LET v == lower(strip(value.v))
         IN  IF v \notin true_values \cup false_values THEN None
             ELSE BoolV(v \in true_values)

RECURSIVE CollapseSpaces(_)
\* re.sub(r"\s+", " ", s)
CollapseSpaces(s) ==
    IF s = <<>> THEN <<>>
    ELSE LET k == SpaceRunLen(s)
         IN  IF k > 0 THEN <<" ">> \o CollapseSpaces(Drop(s, k))
             ELSE <<Head(s)>> \o CollapseSpaces(Tail(s))

serialize_string_no_strip(value) ==
    IF value.t # "str" THEN Raise("TypeError")
    ELSE LET cleaned_string == CollapseSpaces(value.v)
         IN  IF cleaned_string = <<>> THEN None ELSE StrV(cleaned_string)

serialize_string(value) ==
    IF value.t # "str" THEN Raise("TypeError")
    ELSE LET cleaned_string == strip(CollapseSpaces(value.v))
         IN  IF cleaned_string = <<>> THEN None ELSE StrV(cleaned_string)

\* The LOGGER.warning of each serializer: int and float warn in their
\* `except ValueError`, bool for a value out of its lists, string for an
\* empty result.
serialize_int_warns(value) ==
    /\ value.t = "str"
    /\ LET tmp_string == IntFindallJoin(strip(value.v))
       IN  tmp_string # <<>> /\ ~IntLiteralOk(tmp_string)

serialize_float_warns(value) ==
    /\ value.t = "str"
    /\ LET tmp_string == FloatFindallJoin(strip(value.v))
       IN  tmp_string # <<>> /\ ~FloatLiteralOk(tmp_string)

serialize_bool_warns(value) ==
    /\ value.t = "str"
    /\ lower(strip(value.v)) \notin true_values \cup false_values

serialize_string_warns(value) ==
    /\ value.t = "str"
    /\ strip(CollapseSpaces(value.v)) = <<>>

\* clean_raw_data's dispatch on field.type, through apply_serializer.
apply_serializer(field_name, raw) ==
    LET value == raw[field_name]
    IN  IF IsNone(value) THEN None
        ELSE CASE FieldType(field_name) = "float" -> serialize_float(value)
               [] FieldType(field_name) = "str" -> serialize_string(value)
               [] FieldType(field_name) = "int" -> serialize_int(value)
               [] FieldType(field_name) = "bool" -> serialize_bool(value)

RECURSIVE CleanFields(_, _, _)
\* clean_raw_data, `for field in fields(item)` from the k-th field on:
\* setattr(tmp_item, field.name, apply_serializer(..., field.name, item)).
\* The result is tmp_item after the loop, or the exception that left it.
CleanFields(item, tmp_item, k) ==
    IF k > Len(FieldOrder) THEN tmp_item
    ELSE LET r == apply_serializer(FieldOrder[k], item)
         IN  IF IsRaise(r) THEN r
             ELSE CleanFields(item, [tmp_item EXCEPT ![FieldOrder[k]] = r], k + 1)

\* tmp_item = replace(item), then the loop over the fields.
CleanOne(item) == CleanFields(item, item, 1)

\* The serializer applied to field f of item logs a warning.
Warns(f, item) ==
    /\ ~IsNone(item[f])
    /\ CASE FieldType(f) = "float" -> serialize_float_warns(item[f])
         [] FieldType(f) = "str" -> serialize_string_warns(item[f])
         [] FieldType(f) = "int" -> serialize_int_warns(item[f])
         [] FieldType(f) = "bool" -> serialize_bool_warns(item[f])

RECURSIVE WarnedFrom(_, _)
\* The fields, from the k-th on, whose serializer logs a warning before a
\* serializer raises.
WarnedFrom(item, k) ==
    IF k > Len(FieldOrder) THEN {}
    ELSE IF IsRaise(apply_serializer(FieldOrder[k], item)) THEN {}
    ELSE (IF Warns(FieldOrder[k], item) THEN {FieldOrder[k]} ELSE {})
             \cup WarnedFrom(item, k + 1)

WarnedFields(item) == WarnedFrom(item, 1)

\* CleanOne ended with an exception, not with an Item.
Raised(r) == "t" \in DOMAIN r

(***************************************************************************)
(* The pipeline as a state machine: ItemPipeline(raw_item) runs            *)
(* clean_raw_data in its constructor; write_json follows.                  *)
(***************************************************************************)
Chars == {"1", "-", ".", " ", "a"}

\* The strings of section 8 of the specification and of the sites' pages.
ExampleStrings ==
    { <<"3", " ", "c", "h", "a", "m", "b", "r", "e", "s">>,
      <<"a", "b", "c">>,
      <<"-", "2", " ", "e", "t", "a", "g", "e", "s">>,
      <<"O", "u", "i">>, <<"N", "o", "n">>, <<"m", "a", "y", "b", "e">>,
      <<" ", " ", "a", "\n", " ", " ", "b", " ", " ">>,
      <<"0">>, <<" ", "T", "R", "U", "E", "\n">>,
      <<"1", " ", "2", "5", "0", ".", "5", "0", " ", "E", "U", "R">>,
      <<"1", "2", "-", "1", "4">>,
      <<"y", "e", "s">>, <<"n", "o">>, <<"t", "r", "u", "e">>,
      <<"f", "a", "l", "s", "e">>, <<"o", "u", "i">>, <<"n", "o", "n">>,
      <<"Y", "E", "S", " ">>, <<"\t", "N", "o">>, <<"t", "r", "u", "e", "s">>,
      <<"a", "\t", "\n", "b">>, <<"\n", "\t">> }

RawStrings == (UNION {[1..n -> Chars] : n \in 0..MaxLen}) \cup ExampleStrings

\* A scraped Item whose values all parse: the mandatory fields hold text, the
\* optional fields default to None.
BaseRaw ==
    [f \in Fields |->
        CASE f = "DATE" -> StrV(<<"2", "0", "2", "4", "-", "0", "5", "-", "1", "7">>)
          [] f = "PRICE" -> StrV(<<"9", "5", "0", " ", "E", "U", "R">>)
          [] f = "REFERENCE" -> StrV(<<"R", "7">>)
          [] f = "SPIDER" -> StrV(<<"s", "_", "1">>)
          [] f = "TITLE" -> StrV(<<"T">>)
          [] f = "URL" -> StrV(<<"u", "/", "1">>)
          [] OTHER -> None]

\* One field of each declared type, the first two mandatory.
ProbeFields == {"PRICE", "TITLE", "FLOOR", "ELEVATOR"}

SampleValues == {StrV(<<"a">>), StrV(<<"1">>), StrV(<<" ">>)}

\* The files write_json can meet: none, a JSON array, JSON that is no array,
\* text that is no JSON, bytes that are no UTF-8 text.
JsonFiles ==
    { [kind |-> "missing"],
      [kind |-> "array", data |-> <<CleanOne(BaseRaw)>>],
      [kind |-> "not_list"],
      [kind |-> "corrupt"],
      [kind |-> "undecodable"] }

\* The scraped records handed to ItemPipeline: one record with any string in
\* any one field ...
SingleFieldInputs ==
    { <<[BaseRaw EXCEPT ![f] = StrV(x)]>> : f \in Fields, x \in RawStrings }

\* ... or up to MaxItems records with sample values in two fields.
TwoFieldInputs ==
    { [i \in 1..n |-> IF i = 1 THEN [BaseRaw EXCEPT ![fv[1]] = fv[2], ![fv[3]] = fv[4]]
                      ELSE [BaseRaw EXCEPT ![fv[1]] = fv[4]]] :
        n \in 1..MaxItems,
        fv \in Fields \X SampleValues \X ProbeFields \X SampleValues }

\* ... or up to MaxItems records, for each file write_json can meet.
FileInputs ==
    { [i \in 1..n |-> IF i = 1 THEN [BaseRaw EXCEPT ![f] = v] ELSE BaseRaw] :
        n \in 0..MaxItems, f \in ProbeFields, v \in SampleValues }

\* ItemPipeline.__init__: self.raw_item = raw_item, clean_raw_data begins.
PipeInit ==
    /\ \/ raw_item \in SingleFieldInputs \cup TwoFieldInputs
          /\ json_file = [kind |-> "missing"]
       \/ raw_item \in FileInputs /\ json_file \in JsonFiles
    /\ clean_data = <<>>
    /\ clean_item = <<>>
    /\ ppc = "clean_raw_data"
    /\ pass = 1
    /\ first_clean = <<>>
    /\ log = {}
    /\ json_call = <<>>
    /\ StoreIdle
    /\ spider_class = "AcmImmobilierSpider" /\ urls = <<>> /\ nb_spider = 1
    /\ page = <<>> /\ army = <<>> /\ opc = "returned"
    /\ wpc = <<"result">> /\ widx = <<0>> /\ witems = << <<>> >>
    /\ yielded = {1} /\ retour = <<>>

ItemAliased(item, tmp_item) == tmp_item

\* The raw record after the loop over its fields: tmp_item = replace(item) is
\* a new object, so every setattr(tmp_item, ...) leaves item as it was.
ItemAfterSetattr(item, tmp_item) == item

\* clean_raw_data, one turn of `for item in self.raw_item`: every field of a
\* copy of the item is serialized and the copy appended; an exception of a
\* serializer leaves clean_raw_data and the constructor.
clean_raw_data_item ==
    /\ ppc = "clean_raw_data"
    /\ Len(clean_data) < Len(raw_item)
    /\ \E tmp_item \in {CleanOne(raw_item[Len(clean_data) + 1])} :
           IF Raised(tmp_item)
           THEN /\ ppc' = "raised"
                /\ UNCHANGED <<clean_data, raw_item>>
           ELSE /\ clean_data' = Append(clean_data, tmp_item)
                /\ raw_item' = [raw_item EXCEPT ![Len(clean_data) + 1] =
                                    ItemAfterSetattr(@, tmp_item)]
                /\ UNCHANGED ppc
    /\ log' = log \cup {<<Len(clean_data) + 1, f>> :
                            f \in WarnedFields(raw_item[Len(clean_data) + 1])}
    /\ UNCHANGED <<clean_item, pass, first_clean, json_file, json_call>>
    /\ UNCHANGED <<hvars, svars, dvars, nvars, cvars>>

\* clean_raw_data: `return clean_data`, stored in self.clean_item.
clean_raw_data_return ==
    /\ ppc = "clean_raw_data"
    /\ Len(clean_data) = Len(raw_item)
    /\ clean_item' = clean_data
    /\ ppc' = "ready"
    /\ UNCHANGED <<raw_item, clean_data, pass, first_clean, json_file, log, json_call>>
    /\ UNCHANGED <<hvars, svars, dvars, nvars, cvars>>

\* write_json: existing_data is the file's array when append is set and the
\* file holds one, [] otherwise; the file is rewritten with existing_data +
\* [asdict(item) for item in self.clean_item].  The file is read as UTF-8
\* text: bytes that are no UTF-8 raise UnicodeDecodeError in json.load, which
\* `except json.JSONDecodeError` does not catch.
write_json(append) ==
    /\ ppc = "ready"
    /\ json_call' = <<[append |-> append, file |-> json_file]>>
    /\ IF append /\ json_file.kind = "undecodable"
       THEN /\ ppc' = "write_json_raised"
            /\ UNCHANGED json_file
       ELSE /\ LET existing_data ==
                      IF append /\ json_file.kind = "array" THEN json_file.data ELSE <<>>
               IN  json_file' = [kind |-> "array", data |-> existing_data \o clean_item]
            /\ ppc' = "written"
    /\ UNCHANGED <<raw_item, clean_data, clean_item, pass, first_clean, log>>
    /\ UNCHANGED <<hvars, svars, dvars, nvars, cvars>>

\* ItemPipeline(raw_item=clean_item): the pipeline run on records it has
\* already normalized.
normalize_again ==
    /\ ppc = "ready"
    /\ pass = 1
    /\ raw_item' = clean_item
    /\ first_clean' = clean_item
    /\ clean_data' = <<>>
    /\ clean_item' = <<>>
    /\ pass' = 2
    /\ ppc' = "clean_raw_data"
    /\ UNCHANGED <<json_file, log, json_call>>
    /\ UNCHANGED <<hvars, svars, dvars, nvars, cvars>>

PipeNext ==
    \/ clean_raw_data_item
    \/ clean_raw_data_return
    \/ \E append \in BOOLEAN : write_json(append)
    \/ normalize_again

SpecPipe == PipeInit /\ [][PipeNext]_vars

(***************************************************************************)
(* The MongoDB sink.  A document is [DATE, size]: its DATE field and the   *)
(* megabytes it adds to dbStats' dataSize + indexSize, which is also what  *)
(* calculate_documents_size counts for it (len(BSON.encode(asdict(item)))).*)
(* DATE values are ISO dates; they are numbered in calendar order, which   *)
(* is the order of the strings.                                            *)
(***************************************************************************)
QuotaMB == 512

Dates == 1..MaxDate
DocSizes == {50, 150, 400}
Docs == [DATE : Dates, size : DocSizes]

\* database.list_collection_names()
Collections == <<"c1", "c2">>
CollectionSet == {Collections[i] : i \in DOMAIN Collections}

\* The collection this run writes (one collection per source).
collection_name == "c1"

RECURSIVE BagOfSeq(_)
BagOfSeq(docs) ==
    IF docs = <<>> THEN EmptyBag ELSE SetToBag({Head(docs)}) (+) BagOfSeq(Tail(docs))

RECURSIVE BagMB(_)
\* Megabytes of the documents of a bag.
BagMB(B) ==
    IF DOMAIN B = {} THEN 0
    ELSE LET e == CHOOSE x \in DOMAIN B : TRUE
         IN  B[e] * e.size + BagMB([x \in DOMAIN B \ {e} |-> B[x]])

\* size_mongodb: (dataSize + indexSize) / (1024 * 1024) of the database.
size_mongodb(st) == SeqSum([i \in DOMAIN Collections |-> BagMB(st[Collections[i]])])

\* calculate_documents_size: the encoded size of the items of clean_item.
calculate_documents_size(b) == SeqSum([i \in DOMAIN b |-> b[i].size])

OverQuotaIgnoringBatch(st, b) == size_mongodb(st) >= QuotaMB

\* The condition of write_mongodb's while loop.
OverQuota(st, b) == size_mongodb(st) + calculate_documents_size(b) >= QuotaMB

load_data_first_collection(st) == st[Collections[1]]

RECURSIVE ConcatCollections(_, _)
ConcatCollections(st, k) ==
    IF k = 0 THEN EmptyBag ELSE ConcatCollections(st, k - 1) (+) st[Collections[k]]

\* load_data: the documents of every collection, concatenated in one frame.
load_data(st) == ConcatCollections(st, Len(Collections))

\* df["DATE"].min()
MinDate(df) ==
    CHOOSE d \in {e.DATE : e \in DOMAIN df} : \A e \in DOMAIN df : d <= e.DATE

\* collection.delete_many({"DATE": min_date})
delete_many_date(B, min_date) == [e \in {x \in DOMAIN B : x.DATE # min_date} |-> B[e]]

\* The first k documents of the list insert_many sends.
Prefix(b, k) == BagOfSeq(SubSeq(b, 1, k))

\* The databases write_mongodb can meet: up to MaxDocs documents, of any DATE
\* and size, in any collection.
Placements == CollectionSet \X Docs

RECURSIVE Flatten(_)
Flatten(ss) == IF ss = <<>> THEN <<>> ELSE Head(ss) \o Flatten(Tail(ss))

InitialStores ==
    { [c \in CollectionSet |->
         BagOfSeq(Flatten([i \in DOMAIN pl |-> IF pl[i][1] = c THEN <<pl[i][2]>> ELSE <<>>]))] :
        pl \in UNION {[1..n -> Placements] : n \in 0..MaxDocs} }

\* The batches of one run: up to MaxBatch documents that carry the date of
\* the run, in order of size.  With a document of 112 MB a batch can bring a
\* database of 400 MB to 512 MB exactly.
BatchSizes == DocSizes \cup {112}

Batches ==
    { [i \in DOMAIN sz |-> [DATE |-> d, size |-> sz[i]]] :
        d \in Dates,
        sz \in {x \in UNION {[1..n -> BatchSizes] : n \in 0..MaxBatch} :
                   \A i \in 1..(Len(x) - 1) : x[i] <= x[i + 1]} }

\* An ItemPipeline holds its clean_item; write_mongodb has not been called.
StoreInit ==
    /\ store \in InitialStores
    /\ store0 = store
    /\ batch \in Batches
    /\ append_arg = FALSE
    /\ spc = "ready"
    /\ clean_calls = 0
    /\ insert_result = "none"
    /\ raw_item = <<>> /\ clean_data = <<>> /\ clean_item = <<>> /\ ppc = "ready"
    /\ pass = 1 /\ first_clean = <<>> /\ json_file = [kind |-> "missing"]
    /\ log = {} /\ json_call = <<>>
    /\ spider_class = "AcmImmobilierSpider" /\ urls = <<>> /\ nb_spider = 1
    /\ page = <<>> /\ army = <<>> /\ opc = "returned"
    /\ wpc = <<"result">> /\ widx = <<0>> /\ witems = << <<>> >>
    /\ yielded = {1} /\ retour = <<>>
    /\ DiscoverIdle
    /\ WritersIdle

\* write_mongodb(collection_name, append): create_client reads os.environ,
\* which raises KeyError for a variable that is not set; else the client and
\* the collection are obtained and the while loop is reached.
write_mongodb_call(append) ==
    /\ spc = "ready"
    /\ append_arg' = append
    /\ spc' = IF EnvVars \subseteq env THEN "size_check" ELSE "raised"
    /\ UNCHANGED <<store, store0, batch, clean_calls, insert_result>>
    /\ UNCHANGED <<hvars, pvars, dvars, nvars, cvars>>

\* while self.size_mongodb(client) + self.calculate_documents_size() >= 512
write_mongodb_size_check ==
    /\ spc = "size_check"
    /\ spc' = IF OverQuota(store, batch) THEN "clean_mongodb" ELSE "mode_apply"
    /\ UNCHANGED <<store, store0, batch, append_arg, clean_calls, insert_result>>
    /\ UNCHANGED <<hvars, pvars, dvars, nvars, cvars>>

\* clean_mongodb: df = load_data(); min_date = df["DATE"].min(); delete_many
\* of that DATE in every collection.  An empty frame has no column "DATE":
\* df["DATE"] raises KeyError, which leaves clean_mongodb and write_mongodb.
clean_mongodb ==
    /\ spc = "clean_mongodb"
    /\ clean_calls' = clean_calls + 1
    /\ \E df \in {load_data(store)} :
         IF DOMAIN df = {}
         THEN /\ spc' = "raised"
              /\ UNCHANGED store
         ELSE /\ store' = [c \in CollectionSet |-> delete_many_date(store[c], MinDate(df))]
              /\ spc' = "size_check"
    /\ UNCHANGED <<store0, batch, append_arg, insert_result>>
    /\ UNCHANGED <<hvars, pvars, dvars, nvars, cvars>>

write_mongodb_mode_apply_always_clear ==
    /\ spc = "mode_apply"
    /\ store' = [store EXCEPT ![collection_name] = EmptyBag]
    /\ spc' = "insert"
    /\ UNCHANGED <<store0, batch, append_arg, clean_calls, insert_result>>
    /\ UNCHANGED <<hvars, pvars, dvars, nvars, cvars>>

\* if not append: tmp_collection.delete_many({})
write_mongodb_mode_apply ==
    /\ spc = "mode_apply"
    /\ store' = IF append_arg THEN store
                ELSE [store EXCEPT ![collection_name] = EmptyBag]
    /\ spc' = "insert"
    /\ UNCHANGED <<store0, batch, append_arg, clean_calls, insert_result>>
    /\ UNCHANGED <<hvars, pvars, dvars, nvars, cvars>>

\* tmp_collection.insert_many(...) stores every document of a batch that is
\* not empty.
write_mongodb_insert_ok ==
    /\ spc = "insert"
    /\ batch # <<>>
    /\ store' = [store EXCEPT ![collection_name] = @ (+) BagOfSeq(batch)]
    /\ insert_result' = "ok"
    /\ spc' = "done"
    /\ UNCHANGED <<store0, batch, append_arg, clean_calls>>
    /\ UNCHANGED <<hvars, pvars, dvars, nvars, cvars>>

write_mongodb_insert_uncaught ==
    /\ spc = "insert"
    /\ \E k \in 0..(Len(batch) - 1) \cup {0} :
         store' = [store EXCEPT ![collection_name] = @ (+) Prefix(batch, k)]
    /\ insert_result' = "error"
    /\ spc' = "raised"
    /\ UNCHANGED <<store0, batch, append_arg, clean_calls>>
    /\ UNCHANGED <<hvars, pvars, dvars, nvars, cvars>>

\* insert_many raises: at once for an empty list, or after it stored the first
\* k documents (ordered insert); the exception is caught and logged.
write_mongodb_insert_error ==
    /\ spc = "insert"
    /\ \E k \in 0..(Len(batch) - 1) \cup {0} :
         store' = [store EXCEPT ![collection_name] = @ (+) Prefix(batch, k)]
    /\ insert_result' = "error"
    /\ spc' = "done"
    /\ UNCHANGED <<store0, batch, append_arg, clean_calls>>
    /\ UNCHANGED <<hvars, pvars, dvars, nvars, cvars>>

\* write_mongodb returned: webscrape_to_mongodb logs "Scraping complete." and
\* returns.
webscrape_to_mongodb_return ==
    /\ spc = "done"
    /\ spc' = "complete"
    /\ UNCHANGED <<store, store0, batch, append_arg, clean_calls, insert_result>>
    /\ UNCHANGED <<hvars, pvars, dvars, nvars, cvars>>

StoreNext ==
    \/ \E append \in BOOLEAN : write_mongodb_call(append)
    \/ write_mongodb_size_check
    \/ clean_mongodb
    \/ write_mongodb_mode_apply
    \/ write_mongodb_insert_ok
    \/ write_mongodb_insert_error
    \/ webscrape_to_mongodb_return

SpecStore == StoreInit /\ [][StoreNext]_vars

(***************************************************************************)
(* Two processes run write_mongodb on the same database and the same       *)
(* collection.  Every request to the server (dbStats, find, delete_many,   *)
(* insert_many) is one step; the steps of the two processes interleave.    *)
(***************************************************************************)
Writers == {1, 2}

\* The database the two processes meet holds at most one document.
WriterStores ==
    {[c \in CollectionSet |-> EmptyBag]}
      \cup {[c \in CollectionSet |-> IF c = pl[1] THEN SetToBag({pl[2]}) ELSE EmptyBag] :
               pl \in Placements}

\* Each process writes at most one document.
WriterBatches == {b \in Batches : Len(b) <= 1}

WritersInit ==
    /\ store \in WriterStores
    /\ store0 = store
    /\ writer \in [Writers -> [pc : {"ready"}, batch : WriterBatches, append : BOOLEAN]]
    /\ raced = FALSE
    /\ batch = <<>>
    /\ append_arg = FALSE
    /\ spc = "none"
    /\ clean_calls = 0
    /\ insert_result = "none"
    /\ raw_item = <<>> /\ clean_data = <<>> /\ clean_item = <<>> /\ ppc = "ready"
    /\ pass = 1 /\ first_clean = <<>> /\ json_file = [kind |-> "missing"]
    /\ log = {} /\ json_call = <<>>
    /\ spider_class = "AcmImmobilierSpider" /\ urls = <<>> /\ nb_spider = 1
    /\ page = <<>> /\ army = <<>> /\ opc = "returned"
    /\ wpc = <<"result">> /\ widx = <<0>> /\ witems = << <<>> >>
    /\ yielded = {1} /\ retour = <<>>
    /\ DiscoverIdle

\* Another process is past its size check and has not inserted yet.
OtherPastCheck(w) ==
    \E v \in Writers \ {w} : writer[v].pc \in {"mode_apply", "insert"}

\* Process w enters write_mongodb: create_client, then the while loop.
writer_call(w) ==
    /\ writer # <<>>
    /\ writer[w].pc = "ready"
    /\ writer' = [writer EXCEPT ![w].pc =
                     IF EnvVars \subseteq env THEN "size_check" ELSE "raised"]
    /\ UNCHANGED <<raced, hvars, pvars, svars, dvars, nvars>>

\* A size check against the database as it was when the processes started.
writer_size_check_stale(w) ==
    /\ writer # <<>>
    /\ writer[w].pc = "size_check"
    /\ writer' = [writer EXCEPT ![w].pc =
                     IF OverQuota(store0, writer[w].batch)
                     THEN "clean_mongodb" ELSE "mode_apply"]
    /\ UNCHANGED <<raced, hvars, pvars, svars, dvars, nvars>>

\* The while condition of process w: dbStats of the database as it is now.
writer_size_check(w) ==
    /\ writer # <<>>
    /\ writer[w].pc = "size_check"
    /\ writer' = [writer EXCEPT ![w].pc =
                     IF OverQuota(store, writer[w].batch)
                     THEN "clean_mongodb" ELSE "mode_apply"]
    /\ UNCHANGED <<raced, hvars, pvars, svars, dvars, nvars>>

\* clean_mongodb of process w.
writer_clean_mongodb(w) ==
    /\ writer # <<>>
    /\ writer[w].pc = "clean_mongodb"
    /\ \E df \in {load_data(store)} :
         IF DOMAIN df = {}
         THEN /\ writer' = [writer EXCEPT ![w].pc = "raised"]
              /\ UNCHANGED store
         ELSE /\ store' = [c \in CollectionSet |-> delete_many_date(store[c], MinDate(df))]
              /\ writer' = [writer EXCEPT ![w].pc = "size_check"]
    /\ UNCHANGED <<store0, batch, append_arg, spc, clean_calls, insert_result>>
    /\ UNCHANGED <<raced, hvars, pvars, dvars, nvars>>

\* if not append: tmp_collection.delete_many({}), of process w.
writer_mode_apply(w) ==
    /\ writer # <<>>
    /\ writer[w].pc = "mode_apply"
    /\ store' = IF writer[w].append THEN store
                ELSE [store EXCEPT ![collection_name] = EmptyBag]
    /\ writer' = [writer EXCEPT ![w].pc = "insert"]
    /\ UNCHANGED <<store0, batch, append_arg, spc, clean_calls, insert_result>>
    /\ UNCHANGED <<raced, hvars, pvars, dvars, nvars>>

\* insert_many of process w: the document is stored, or insert_many raises
\* (at once for an empty list) and the exception is caught and logged.
writer_insert(w) ==
    /\ writer # <<>>
    /\ writer[w].pc = "insert"
    /\ \/ /\ writer[w].batch # <<>>
          /\ store' = [store EXCEPT ![collection_name] = @ (+) BagOfSeq(writer[w].batch)]
       \/ UNCHANGED store
    /\ writer' = [writer EXCEPT ![w].pc = "done"]
    /\ raced' = (raced \/ OtherPastCheck(w))
    /\ UNCHANGED <<store0, batch, append_arg, spc, clean_calls, insert_result>>
    /\ UNCHANGED <<hvars, pvars, dvars, nvars>>

WritersNext ==
    \E w \in Writers :
        \/ writer_call(w)
        \/ writer_size_check(w)
        \/ writer_clean_mongodb(w)
        \/ writer_mode_apply(w)
        \/ writer_insert(w)

SpecWriters == WritersInit /\ [][WritersNext]_vars

(***************************************************************************)
(* Discovery and the run of webscrape_to_mongodb.  The orchestrator is     *)
(* named by its spider_class.  A site describes its listing pages 1 to     *)
(* MaxPages and, in `tail`, the page served for every larger page number.  *)
(* MorzineImmorchestrator and CimalpesOrchestrator have the loop of        *)
(* AscensionImmoOrchestrator.                                              *)
(***************************************************************************)
OrchestratorClasses == {"AgenceOlivierSpider", "AcmImmobilierSpider", "AscensionImmoSpider"}

\* The offers of a listing page: hrefs of listings 1 and 2.
PageOffers == {<<>>, <<1>>, <<2>>, <<1, 2>>}

PageAnswers ==
    {OkPage(o, m) : o \in PageOffers, m \in BOOLEAN} \cup {ConnError, HttpError}

TailAnswers == {OkPage(<<>>, m) : m \in BOOLEAN} \cup {ConnError, HttpError}

Sites == [pages : [1..MaxPages -> PageAnswers], tail : TailAnswers]

PageAt(n) == IF n <= MaxPages THEN site.pages[n] ELSE site.tail

\* page_number += 1.  The numbers past MaxPages + 2 are folded onto
\* MaxPages + 1 and MaxPages + 2: all of them name the page `tail`.
NextPage(n) == IF n >= MaxPages + 2 THEN MaxPages + 1 ELSE n + 1

\* try: response = requests.get(...); response.raise_for_status()
\* except requests.RequestException: LOGGER.error(...)
\* A connection error leaves `response` as it was.
Fetch(old, n) == IF PageAt(n).status = "conn_error" THEN old ELSE PageAt(n)

FirstFailure(ff, n) == IF ff = 0 /\ PageAt(n).status # "ok" THEN n ELSE ff

\* webscrape_to_mongodb was called: nothing has run yet.
RunInit ==
    /\ site \in Sites
    /\ spider_class \in OrchestratorClasses
    /\ env \in SUBSET EnvVars
    /\ page \in {[p \in 1..MaxFound |-> k] : k \in {"ok", "fetch_error"}}
    /\ dpc = "start"
    /\ page_number = 1
    /\ response = Unbound
    /\ soup = Unbound
    /\ fetch_failed = 0
    /\ network_used = FALSE
    /\ urls = <<>>
    /\ nb_spider = 1
    /\ army = <<>>
    /\ opc = "fetch_urls"
    /\ wpc = [w \in 1..nb_spider |-> "new"]
    /\ widx = [w \in 1..nb_spider |-> 0]
    /\ witems = [w \in 1..nb_spider |-> <<>>]
    /\ yielded = {}
    /\ retour = <<>>
    /\ raw_item = <<>> /\ clean_data = <<>> /\ clean_item = <<>> /\ ppc = "none"
    /\ pass = 1 /\ first_clean = <<>> /\ json_file = [kind |-> "missing"]
    /\ log = {} /\ json_call = <<>>
    /\ store = [c \in {"c1", "c2"} |-> EmptyBag]
    /\ store0 = store
    /\ batch = <<>>
    /\ append_arg = FALSE
    /\ spc = "none"
    /\ clean_calls = 0
    /\ insert_result = "none"
    /\ WritersIdle

\* AgenceOlivierOrchestrator.fetch_urls: one request; when it got no answer,
\* `response` is unbound and response.content raises UnboundLocalError.
fetch_urls_single_page ==
    /\ opc = "fetch_urls"
    /\ spider_class = "AgenceOlivierSpider"
    /\ dpc = "start"
    /\ network_used' = TRUE
    /\ fetch_failed' = FirstFailure(fetch_failed, 1)
    /\ response' = Fetch(response, 1)
    /\ IF response' = Unbound
       THEN /\ dpc' = "raised"
            /\ UNCHANGED <<soup, urls, opc>>
       ELSE /\ soup' = response'
            /\ urls' = urls \o response'.offers
            /\ dpc' = "returned"
            /\ opc' = "init"
    /\ UNCHANGED <<site, page_number, env>>
    /\ UNCHANGED <<spider_class, nb_spider, page, army, wpc, widx, witems, yielded, retour>>
    /\ UNCHANGED <<pvars, svars, cvars>>

\* AcmImmobilierOrchestrator.fetch_urls, one turn of `while True`: a failed
\* fetch breaks; else the offers are appended and the loop breaks when the
\* pagination has no has-more indicator.
fetch_urls_while_true ==
    /\ opc = "fetch_urls"
    /\ spider_class = "AcmImmobilierSpider"
    /\ dpc \in {"start", "loop"}
    /\ Len(urls) + Len(PageAt(page_number).offers) <= MaxFound
    /\ network_used' = TRUE
    /\ fetch_failed' = FirstFailure(fetch_failed, page_number)
    /\ response' = Fetch(response, page_number)
    /\ IF PageAt(page_number).status # "ok"
       THEN /\ dpc' = "returned"
            /\ opc' = "init"
            /\ UNCHANGED <<soup, urls, page_number>>
       ELSE /\ soup' = response'
            /\ urls' = urls \o response'.offers
            /\ IF response'.more
               THEN /\ page_number' = NextPage(page_number)
                    /\ dpc' = "loop"
                    /\ opc' = opc
               ELSE /\ dpc' = "returned"
                    /\ opc' = "init"
                    /\ UNCHANGED page_number
    /\ UNCHANGED <<site, env>>
    /\ UNCHANGED <<spider_class, nb_spider, page, army, wpc, widx, witems, yielded, retour>>
    /\ UNCHANGED <<pvars, svars, cvars>>

\* AscensionImmoOrchestrator.fetch_urls up to its loop: the first page is
\* requested and soup = BeautifulSoup(response.content), which raises
\* UnboundLocalError when the request got no answer.
fetch_urls_first_page ==
    /\ opc = "fetch_urls"
    /\ spider_class = "AscensionImmoSpider"
    /\ dpc = "start"
    /\ network_used' = TRUE
    /\ fetch_failed' = FirstFailure(fetch_failed, 1)
    /\ response' = Fetch(response, 1)
    /\ IF response' = Unbound
       THEN /\ dpc' = "raised"
            /\ UNCHANGED soup
       ELSE /\ soup' = response'
            /\ dpc' = "loop"
    /\ UNCHANGED <<site, page_number, env>>
    /\ UNCHANGED <<spider_class, urls, nb_spider, page, army, opc, wpc, widx, witems,
                   yielded, retour>>
    /\ UNCHANGED <<pvars, svars, cvars>>

\* AscensionImmoOrchestrator.fetch_urls, the loop test and one turn: while
\* the soup of the last turn has the has-more indicator, `response` is
\* parsed, its offers are appended and the next page is requested; a failed
\* request is logged only.
fetch_urls_while_next ==
    /\ opc = "fetch_urls"
    /\ spider_class = "AscensionImmoSpider"
    /\ dpc = "loop"
    /\ IF soup.more
       THEN /\ Len(urls) + Len(response.offers) <= MaxFound
            /\ soup' = response
            /\ urls' = urls \o response.offers
            /\ page_number' = NextPage(page_number)
            /\ network_used' = TRUE
            /\ fetch_failed' = FirstFailure(fetch_failed, page_number')
            /\ response' = Fetch(response, page_number')
            /\ UNCHANGED <<dpc, opc>>
       ELSE /\ dpc' = "returned"
            /\ opc' = "init"
            /\ UNCHANGED <<soup, urls, page_number, network_used, fetch_failed, response>>
    /\ UNCHANGED <<site, env>>
    /\ UNCHANGED <<spider_class, nb_spider, page, army, wpc, widx, witems, yielded, retour>>
    /\ UNCHANGED <<pvars, svars, cvars>>

\* webscrape_to_mongodb: pipe = pipeline.ItemPipeline(raw_item=scraped_items),
\* once deploy_army returned.  The records and their documents are those of
\* SpecPipe and SpecStore; the run only follows the control.
webscrape_to_mongodb_pipeline ==
    /\ opc = "returned"
    /\ dpc = "returned"
    /\ spc = "none"
    /\ spc' = "ready"
    /\ UNCHANGED <<store, store0, batch, append_arg, clean_calls, insert_result>>
    /\ UNCHANGED <<hvars, pvars, dvars, nvars, cvars>>

RunNext ==
    \/ fetch_urls_single_page
    \/ fetch_urls_while_true
    \/ fetch_urls_first_page
    \/ fetch_urls_while_next
    \/ HarvestNext
    \/ webscrape_to_mongodb_pipeline
    \/ \E append \in BOOLEAN : write_mongodb_call(append)

\* The thread that runs webscrape_to_mongodb and the pool's threads keep
\* running.
SpecRun == RunInit /\ [][RunNext]_vars /\ WF_vars(RunNext)

(***************************************************************************)
(* Claims about the harvest.                                               *)
(***************************************************************************)
Count(seq, x) == Cardinality({j \in DOMAIN seq : seq[j] = x})

Holders(p) == {w \in DOMAIN army : p \in army[w].pos}

\* The URLs a spider was given are the URLs at the positions it holds, in order.
HoldsItsPositions(w) ==
    /\ Len(army[w].urls) = Cardinality(army[w].pos)
    /\ \A k \in 1..Len(army[w].urls) :
         /\ PosOf(w, k) \in army[w].pos
         /\ army[w].urls[k] = urls[PosOf(w, k)]

\* C1: for 1 <= n <= L, create_army gives every position of the URL sequence
\* to exactly one spider (no URL dropped, none given twice: every URL occurs
\* in the subsets as often as in the input), and the sizes of the largest and
\* the smallest subset differ by at most 1.
C1_PartitionExactAndBalanced ==
    (opc = "constructed" /\ nb_spider <= Len(urls)) =>
        /\ DOMAIN army = 1..nb_spider
        /\ \A p \in 1..Len(urls) : Cardinality(Holders(p)) = 1
        /\ \A w \in DOMAIN army : army[w].pos \subseteq 1..Len(urls)
        /\ \A w \in DOMAIN army : HoldsItsPositions(w)
        /\ \A u \in UrlIds :
             SeqSum([w \in 1..nb_spider |-> Count(army[w].urls, u)]) = Count(urls, u)
        /\ \A v, w \in DOMAIN army : Len(army[v].urls) - Len(army[w].urls) <= 1

\* A split that is not even (4 URLs, 3 spiders) of a sequence with a repeat.
C1_Witness ==
    /\ opc = "constructed"
    /\ nb_spider = 3
    /\ Len(urls) = 4
    /\ urls[1] = urls[2]
    /\ Len(army[1].urls) = 2

CrashedWorkers == {w \in Workers : wpc[w] = "exception"}

RECURSIVE ConcatItems(_, _)
\* The items of the spiders of the sequence ws, spider after spider.
ConcatItems(ws, its) ==
    IF ws = <<>> THEN <<>> ELSE its[Head(ws)] \o ConcatItems(Tail(ws), its)

\* retour holds exactly the items of the spiders of the set S, each once.
HoldsExactlyItemsOf(S) ==
    /\ Len(retour) = SeqSum([w \in 1..nb_spider |->
                               IF w \in S THEN Len(witems[w]) ELSE 0])
    /\ \A w \in S : \A k \in 1..Len(witems[w]) : Count(retour, witems[w][k]) = 1

\* C2: when exactly one spider's deploy ends with an exception, deploy_army
\* still completes without raising and returns the items of all the other
\* spiders.
C2_OneCrashStillReturns ==
    (opc \in {"returned", "raised"} /\ Cardinality(CrashedWorkers) = 1) =>
        /\ opc = "returned"
        /\ HoldsExactlyItemsOf(Workers \ CrashedWorkers)

\* The items deploy owes for the first k URLs of spider w: one per "ok" page,
\* in the order of the URLs.
RECURSIVE OkItems(_, _)
OkItems(w, k) ==
    IF k = 0 THEN <<>>
    ELSE IF page[PosOf(w, k)] = "ok"
         THEN Append(OkItems(w, k - 1), MakeItem(w, PosOf(w, k)))
         ELSE OkItems(w, k - 1)

\* C3: a failure while processing one URL never leaves the per-URL loop of
\* Spider.deploy: the failing URL contributes no item and every later URL is
\* still processed, so deploy ends by returning the items of all its "ok"
\* pages.
C3_FailureStaysInLoop ==
    \A w \in Workers :
        /\ wpc[w] # "exception"
        /\ wpc[w] = "result" => witems[w] = OkItems(w, Len(army[w].urls))

\* C4: when no spider crashes, deploy_army returns, and only after every
\* spider has finished; retour then holds every item of every spider exactly
\* once, whatever the order in which the spiders completed.
C4_ReturnsAllItemsOnce ==
    /\ opc = "returned" =>
         /\ \A w \in Workers : wpc[w] = "result" /\ w \in yielded
         /\ HoldsExactlyItemsOf(Workers)
    /\ (\A p \in 1..Len(urls) : parse(spider_class, page[p]) # "raise") =>
         opc \notin {"unwinding", "raised"}

\* Spider 2 completed before spider 1, both with items.
C4_Witness ==
    /\ opc = "returned"
    /\ nb_spider = 3
    /\ Len(retour) >= 3
    /\ retour[1].SPIDER = 2
    /\ retour[Len(retour)].SPIDER = 1

(***************************************************************************)
(* Claims about the normalization pipeline.                                *)
(***************************************************************************)
HasDigit(x) == \E i \in DOMAIN x : IsDigit(x[i])

\* A scraped value that holds nothing its declared type can be read from.
Unparseable(type, value) ==
    /\ value.t = "str"
    /\ CASE type \in {"int", "float"} -> ~HasDigit(value.v)
         [] type = "bool" -> lower(strip(value.v)) \notin true_values \cup false_values
         [] type = "str" -> \A i \in DOMAIN value.v : IsSpace(value.v[i])

\* A scraped value its declared type reads without trouble.
Parseable(type) ==
    CASE type \in {"int", "float"} -> StrV(<<"7">>)
      [] type = "bool" -> StrV(<<"o", "u", "i">>)
      [] type = "str" -> StrV(<<"x">>)

\* The fields of a scraped record that come out as None though scraped.
LostFields(raw, clean) == {f \in Fields : ~IsNone(raw[f]) /\ IsNone(clean[f])}

\* C5: clean_raw_data never raises on scraped records; a field whose value
\* cannot be parsed becomes None; and the normalized values of the other
\* fields are what they would be had that field been parseable.
C5_FieldFailuresAreLocal ==
    pass = 1 =>
        /\ ppc # "raised"
        /\ \A i \in DOMAIN clean_data :
             /\ \A f \in Fields :
                  Unparseable(FieldType(f), raw_item[i][f]) => IsNone(clean_data[i][f])
             /\ \A f \in LostFields(raw_item[i], clean_data[i]) :
                  \E repaired \in {CleanOne([raw_item[i] EXCEPT
                                              ![f] = Parseable(FieldType(f))])} :
                      /\ ~Raised(repaired)
                      /\ ~IsNone(repaired[f])
                      /\ \A g \in Fields \ {f} : repaired[g] = clean_data[i][g]

\* Two records; in the first FLOOR is "a" and PRICE still comes out as 950.
C5_Witness ==
    /\ pass = 1
    /\ ppc = "ready"
    /\ Len(clean_item) = 2
    /\ raw_item[1]["FLOOR"] = StrV(<<"a">>)
    /\ IsNone(clean_item[1]["FLOOR"])
    /\ clean_item[1]["PRICE"] = FloatV(950, 0)
    /\ clean_item[2]["PRICE"] = FloatV(950, 0)

\* C6: normalization is idempotent: the pipeline run on records it already
\* normalized completes and yields the same records.
C6_NormalizeIdempotent ==
    pass = 2 =>
        /\ ppc # "raised"
        /\ ppc \in {"ready", "written"} => clean_item = first_clean

Complete(item) == \A f \in MandatoryFields : ~IsNone(item[f])

\* C7: every record that reaches a sink has its six mandatory fields
\* non-empty: a record whose mandatory field did not parse is dropped from
\* clean_item before anything is written.
C7_SinkRecordsComplete ==
    /\ ppc \in {"ready", "written"} => \A i \in DOMAIN clean_item : Complete(clean_item[i])
    /\ json_file.kind = "array" =>
         \A i \in DOMAIN json_file.data : Complete(json_file.data[i])


\* C16: after write_json the file holds a JSON array: the records of
\* clean_item, after the elements the file held if append was set and the
\* file held an array; a file that held anything else counts as empty.
C16_WriteJsonLeavesArray ==
    json_call # <<>> =>
        LET existing_data ==
                IF json_call[1].append /\ json_call[1].file.kind = "array"
                THEN json_call[1].file.data ELSE <<>>
        IN  json_file = [kind |-> "array", data |-> existing_data \o clean_item]

\* The records normalized from the scraped records: pass 1 of the pipeline.
Normalized == IF pass = 1 THEN DOMAIN clean_data ELSE {}

\* C17: serialize_int gives the integer written by the joined signed digit
\* runs of the string; without a digit, or when the joined runs are no
\* integer, it gives None and logs a warning.
C17_SerializeIntParsesDigitRuns ==
    \A i \in Normalized : \A f \in IntFields :
        raw_item[i][f].t = "str" =>
            LET runs == IntFindallJoin(raw_item[i][f].v)
            IN  IF runs # <<>> /\ IntLiteralOk(runs)
                THEN clean_data[i][f] = IntV(IntLiteralValue(runs))
                ELSE clean_data[i][f] = None /\ <<i, f>> \in log

TrueWords == {<<"y", "e", "s">>, <<"t", "r", "u", "e">>, <<"1">>, <<"o", "u", "i">>}
FalseWords == {<<"n", "o">>, <<"f", "a", "l", "s", "e">>, <<"0">>, <<"n", "o", "n">>}

\* C18: serialize_bool gives True exactly for yes, true, 1, oui and False
\* exactly for no, false, 0, non, whatever the case and the surrounding
\* whitespace; for any other string it gives None and logs a warning.
C18_SerializeBoolVocabulary ==
    \A i \in Normalized : \A f \in BoolFields :
        raw_item[i][f].t = "str" =>
            LET word == strip(lower(raw_item[i][f].v))
            IN  /\ clean_data[i][f] = BoolV(TRUE) <=> word \in TrueWords
                /\ clean_data[i][f] = BoolV(FALSE) <=> word \in FalseWords
                /\ word \notin TrueWords \cup FalseWords =>
                       clean_data[i][f] = None /\ <<i, f>> \in log

\* " TRUE\n" became True, in a record whose other fields were kept.
C18_Witness ==
    /\ pass = 1
    /\ ppc = "ready"
    /\ Len(clean_item) = 1
    /\ raw_item[1]["ELEVATOR"] = StrV(<<" ", "T", "R", "U", "E", "\n">>)
    /\ clean_item[1]["ELEVATOR"] = BoolV(TRUE)
    /\ log = {}

RECURSIVE Words(_)
\* The maximal runs of characters of s that are not whitespace.
Words(s) ==
    IF s = <<>> THEN <<>>
    ELSE IF IsSpace(Head(s)) THEN Words(Tail(s))
    ELSE LET k == CHOOSE n \in 1..Len(s) :
                      /\ \A j \in 1..n : ~IsSpace(s[j])
                      /\ n = Len(s) \/ IsSpace(s[n + 1])
         IN  <<SubSeq(s, 1, k)>> \o Words(Drop(s, k))

RECURSIVE JoinWords(_)
JoinWords(ws) ==
    IF ws = <<>> THEN <<>>
    ELSE IF Len(ws) = 1 THEN ws[1]
    ELSE ws[1] \o <<" ">> \o JoinWords(Tail(ws))

C21_NormalizationKeepsInput ==
    [][(ppc = "clean_raw_data") => raw_item' = raw_item]_vars

\* A price was turned into a float in the normalized record and is still
\* the scraped string in the raw record.
C21_Witness ==
    /\ pass = 1
    /\ ppc = "ready"
    /\ Len(clean_item) = 1
    /\ raw_item[1]["PRICE"] = StrV(<<"9", "5", "0", " ", "E", "U", "R">>)
    /\ clean_item[1]["PRICE"] = FloatV(950, 0)
    /\ raw_item[1]["TITLE"] = StrV(<<" ", " ", "a">>)
    /\ clean_item[1]["TITLE"] = StrV(<<"a">>)

(***************************************************************************)
(* Claims about the MongoDB sink.                                          *)
(***************************************************************************)
StoredDates(st) == UNION {{e.DATE : e \in DOMAIN st[c]} : c \in CollectionSet}

OldestDate(st) == CHOOSE d \in StoredDates(st) : \A e \in StoredDates(st) : d <= e

\* C9: a clean_mongodb that evicts removes, in every collection, every
\* document whose DATE is the oldest DATE of the whole database, and no other
\* document: no document leaves while an older one stays.
C9_EvictsExactlyOldestDate ==
    [][(spc = "clean_mongodb" /\ spc' = "size_check") =>
          \A c \in CollectionSet : \A d \in Docs :
              CopiesIn(d, store'[c]) =
                  IF d.DATE = OldestDate(store) THEN 0 ELSE CopiesIn(d, store[c])]_vars

\* The oldest DATE was in the second collection only: clean_mongodb emptied
\* it there and kept the newer document of the first collection.
C9_Witness ==
    /\ spc = "size_check"
    /\ clean_calls = 1
    /\ store0 = [c \in CollectionSet |->
                    IF c = "c1" THEN SetToBag({[DATE |-> 2, size |-> 400]})
                    ELSE SetToBag({[DATE |-> 1, size |-> 150]})]
    /\ store = [c \in CollectionSet |->
                    IF c = "c1" THEN SetToBag({[DATE |-> 2, size |-> 400]})
                    ELSE EmptyBag]

\* C10: the while loop of write_mongodb is left because the database got
\* under the quota, never by an exception, and clean_mongodb is called at
\* most once per distinct DATE the database held when write_mongodb started.
C10_EvictionLoopTerminates ==
    /\ spc # "raised"
    /\ clean_calls <= Cardinality(StoredDates(store0))


\* C13: in a write_mongodb that evicts nothing and whose insert succeeds,
\* replace mode empties the destination collection before the insert and
\* leaves exactly the batch in it; append mode deletes nothing and leaves the
\* previous documents plus the batch.  The other collections are untouched.
C13_ReplaceAndAppend ==
    clean_calls = 0 =>
        /\ spc = "insert" =>
              store = IF append_arg THEN store0
                      ELSE [store0 EXCEPT ![collection_name] = EmptyBag]
        /\ insert_result = "ok" =>
              store = [store0 EXCEPT ![collection_name] =
                          IF append_arg THEN @ (+) BagOfSeq(batch) ELSE BagOfSeq(batch)]

\* A collection that held other documents was replaced by a batch.
C13_Witness ==
    /\ spc = "done"
    /\ insert_result = "ok"
    /\ clean_calls = 0
    /\ store0[collection_name] # EmptyBag
    /\ store0[collection_name] # BagOfSeq(batch)
    /\ ~append_arg
    /\ store[collection_name] = BagOfSeq(batch)

\* C14: when insert_many raises, the exception is caught: write_mongodb
\* returns and webscrape_to_mongodb completes; no exception leaves them.
C14_InsertErrorIsCaught ==
    insert_result = "error" => spc \in {"done", "complete"}

\* insert_many failed after it stored a part of the batch and the run
\* completed.
C14_Witness ==
    /\ spc = "complete"
    /\ insert_result = "error"
    /\ batch # <<>>
    /\ store[collection_name] # store0[collection_name]

\* C22: a spider visits its URLs in the order of its subset, one at a time,
\* and the items of deploy are at every moment the results that are not None
\* of the URLs visited so far, in the order of the visits.
C22_DeployKeepsVisitOrder ==
    /\ [](\A w \in Workers :
             wpc[w] \in {"running", "result", "exception"} =>
                 witems[w] = OkItems(w, widx[w]))
    /\ [][\A w \in Workers : widx'[w] \in {widx[w], widx[w] + 1}]_vars

\* A spider returned two items, from its first and its third URL; the page
\* of its second URL could not be fetched.
C22_Witness ==
    /\ spider_class = "AgenceOlivierSpider"
    /\ nb_spider = 1
    /\ Len(urls) = 3
    /\ page = <<"ok", "fetch_error", "ok">>
    /\ wpc[1] = "result"
    /\ Len(witems[1]) = 2
    /\ witems[1][1].URL = urls[1]
    /\ witems[1][2].URL = urls[3]

(***************************************************************************)
(* Claims about discovery.                                                 *)
(***************************************************************************)
\* C11: fetch_urls terminates for every site, also when every page carries
\* the has-more indicator and when a fetch fails: it eventually returns or
\* raises.
C11_DiscoveryTerminates == <>(dpc \in {"returned", "raised"})

\* The offers of the pages 1 to n - 1.
OffersBefore(n) == Flatten([i \in 1..(n - 1) |-> PageAt(i).offers])

\* C12: when a page fetch failed, fetch_urls raises nothing and returns the
\* offers of the pages fetched before the failure, each once.
C12_FetchFailureReturnsPartial ==
    fetch_failed > 0 =>
        /\ dpc # "raised"
        /\ dpc = "returned" => urls = OffersBefore(fetch_failed)


NoRepeat(seq) == \A i, j \in DOMAIN seq : seq[i] = seq[j] => i = j

\* C20: the URL sequence fetch_urls returns, which create_army partitions,
\* holds no URL twice.
C20_DiscoveredUrlsDistinct == dpc = "returned" => NoRepeat(urls)

(***************************************************************************)
(* Claims about the run.                                                   *)
(***************************************************************************)
\* C15: when a variable of the document store is not set, the KeyError of
\* create_client reaches the caller before any HTTP request was sent.
C15_ConfigErrorBeforeNetwork ==
    (spc = "raised" /\ ~(EnvVars \subseteq env)) => ~network_used


\* C23: write_mongodb evicts only when the size of the database plus the
\* size of the batch is above 512 MB: with a sum of at most 512 MB, 512 MB
\* included, clean_mongodb is not called.
C23_EvictsOnlyAboveQuota ==
    clean_calls > 0 =>
        size_mongodb(store0) + calculate_documents_size(batch) > QuotaMB


\* The number of URLs the spiders before spider w hold.
UrlsBefore(w) == SeqSum([v \in 1..(w - 1) |-> Len(army[v].urls)])

\* C24: create_army preserves order: the subset of every spider is a
\* contiguous run of the URL sequence, in the order of the sequence, that
\* starts where the subset of the spider before it ends, so the subsets of
\* spiders 1..n, one after the other, are the URL sequence; the assignment is
\* a function of (urls, n).
C24_PartitionKeepsOrder ==
    opc = "constructed" =>
        /\ DOMAIN army = 1..nb_spider
        /\ Flatten([w \in 1..nb_spider |-> army[w].urls]) = urls
        /\ \A w \in 1..nb_spider :
             army[w].urls =
                 SubSeq(urls, UrlsBefore(w) + 1, UrlsBefore(w) + Len(army[w].urls))
        /\ army = CreateArmy(urls, nb_spider)

\* Three different URLs for two spiders: the first two, then the third.
C24_Witness ==
    /\ opc = "constructed"
    /\ nb_spider = 2
    /\ Len(urls) = 3
    /\ Cardinality({urls[i] : i \in 1..3}) = 3
    /\ army[1].urls = <<urls[1], urls[2]>>
    /\ army[2].urls = <<urls[3]>>


\* C25: the size check, the eviction and the insert of write_mongodb are not
\* one atomic step.  With two processes on one database, the stored size
\* reaches the quota of 512 MB only in an interleaving where one process
\* inserted while the other one was past its size check and before its
\* insert; C25_Witness is such an interleaving, in which each process alone
\* would have stayed under the quota.
C25_OvershootOnlyByRace ==
    writer # <<>> => (size_mongodb(store) >= QuotaMB => raced)

\* Both processes passed the size check before either inserted, no document
\* was evicted or replaced, both inserts succeeded, and the database is above
\* the quota although it had room for each batch alone.
C25_Witness ==
    /\ writer # <<>>
    /\ \A w \in Writers : writer[w].pc = "done" /\ Len(writer[w].batch) = 1
    /\ raced
    /\ \A w \in Writers :
         size_mongodb(store0) + calculate_documents_size(writer[w].batch) < QuotaMB
    /\ store = [store0 EXCEPT ![collection_name] =
                   @ (+) BagOfSeq(writer[1].batch) (+) BagOfSeq(writer[2].batch)]
    /\ size_mongodb(store) > QuotaMB


\* Page n is reached by following the has-more indicators from page 1.
OnChain(n) == \A i \in 1..(n - 1) : PageAt(i).status = "ok" /\ PageAt(i).more

\* C26: paginated discovery returns the offers of every page it fetched
\* successfully by following the has-more indicators from page 1, the page
\* without the indicator included, also when page 1 is the only page.
C26_EveryFetchedPageHarvested ==
    (spider_class \in {"AcmImmobilierSpider", "AscensionImmoSpider"} /\ dpc = "returned") =>
        \A n \in 1..MaxPages :
            (OnChain(n) /\ PageAt(n).status = "ok") =>
                /\ Len(urls) >= Len(OffersBefore(n + 1))
                /\ SubSeq(urls, 1, Len(OffersBefore(n + 1))) = OffersBefore(n + 1)


============================================================================
